---- MODULE Spec2Model ----
(***************************************************************************)
(* Model of the de_assistant database helpers (src/de_assistant/db.py),    *)
(* their CLI (src/de_assistant/__main__.py) and the FastAPI application    *)
(* (src/app/app.py).                                                       *)
(*                                                                         *)
(* SQL text is a sequence of one-character strings so that strip, rstrip,  *)
(* lower and startswith are computed character by character.               *)
(***************************************************************************)
EXTENDS Integers, Sequences, FiniteSets, TLC

VARIABLES
    \* database operations (CLI commands and POST /api/db/test)
    pc, op, query, limit, conn, sent, ret, outcome, conns, tableRows,
    \* run_query applied to drawn statements
    tpc, tquery, tlimit, tsent, tfirst, tresult,
    \* GET /api/db/discover
    dpc, dhost, dport, open_endpoints, probes, dresponse,
    \* POST /api/chat
    cpc, cmsg, ctext, cgraph, cinvoked, cresponse, _compiled_graph, compileCount, libsAvailable

opVars == <<pc, op, query, limit, conn, sent, ret, outcome, conns>>
textVars == <<tpc, tquery, tlimit, tsent, tfirst, tresult>>
discoverVars == <<dpc, dhost, dport, open_endpoints, probes, dresponse>>
chatVars == <<cpc, cmsg, ctext, cgraph, cinvoked, cresponse, _compiled_graph, compileCount, libsAvailable>>
vars == <<opVars, tableRows, textVars, discoverVars, chatVars>>

----------------------------------------------------------------------------
(* Bounds *)

\* concurrent database operations
NumProcs == 2
\* concurrent /api/chat requests
NumThreads == 2
\* largest --limit drawn
MaxLimit == 2
\* largest number of rows in table t
MaxRows == 2
\* longest run of trailing blanks and terminators appended to a drawn statement
MaxTrail == 3

----------------------------------------------------------------------------
(* Text helpers: Python str methods on sequences of characters *)

\* Optional[T]: None is the empty sequence, a value v is <<v>>
None == <<>>
Some(v) == <<v>>

Whitespace == {" ", "\n"}

UpperToLower == [c \in {"S", "E", "L", "C", "T", "A"} |->
                    CASE c = "S" -> "s" [] c = "E" -> "e" [] c = "L" -> "l"
                      [] c = "C" -> "c" [] c = "T" -> "t" [] c = "A" -> "a"]

\* str.lower()
Lower(s) == [i \in 1..Len(s) |-> IF s[i] \in DOMAIN UpperToLower THEN UpperToLower[s[i]] ELSE s[i]]

RECURSIVE LStripChars(_, _)
\* str.lstrip(chars)
LStripChars(s, chars) ==
    IF s # <<>> /\ Head(s) \in chars THEN LStripChars(Tail(s), chars) ELSE s

RECURSIVE RStripChars(_, _)
\* str.rstrip(chars)
RStripChars(s, chars) ==
    IF s # <<>> /\ s[Len(s)] \in chars THEN RStripChars(SubSeq(s, 1, Len(s) - 1), chars) ELSE s

\* str.strip()
Strip(s) == RStripChars(LStripChars(s, Whitespace), Whitespace)

\* str.startswith(prefix)
StartsWith(s, prefix) ==
    Len(s) >= Len(prefix) /\ SubSeq(s, 1, Len(prefix)) = prefix

\* str.endswith(suffix)
EndsWith(s, suffix) ==
    Len(s) >= Len(suffix) /\ SubSeq(s, Len(s) - Len(suffix) + 1, Len(s)) = suffix

DigitChar == [d \in 0..9 |->
                 CASE d = 0 -> "0" [] d = 1 -> "1" [] d = 2 -> "2" [] d = 3 -> "3"
                   [] d = 4 -> "4" [] d = 5 -> "5" [] d = 6 -> "6" [] d = 7 -> "7"
                   [] d = 8 -> "8" [] d = 9 -> "9"]

RECURSIVE DecStr(_)
\* str(int(n)) for n >= 0
DecStr(n) == IF n < 10 THEN <<DigitChar[n]>> ELSE DecStr(n \div 10) \o <<DigitChar[n % 10]>>

Min(a, b) == IF a <= b THEN a ELSE b

----------------------------------------------------------------------------
(* SQL text of the program *)

SELECT_KW == <<"s", "e", "l", "e", "c", "t">>
WRAP_PREFIX == <<"s", "e", "l", "e", "c", "t", " ", "*", " ", "f", "r", "o", "m", " ", "(">>
WRAP_SUFFIX == <<")", " ", "a", "s", " ", "s", "u", "b", "q", "u", "e", "r", "y", " ", "l", "i", "m", "i", "t", " ">>
\* test_connection's probe statement
TEST_QUERY == <<"s", "e", "l", "e", "c", "t", " ", "1", " ", "a", "s", " ", "o", "k">>
\* db_test's default statement
DEFAULT_QUERY == <<"S", "E", "L", "E", "C", "T", " ", "1", " ", "A", "S", " ", "o", "k">>
\* list_tables' statement (the information_schema query, abbreviated)
LIST_TABLES_QUERY == <<"s", "e", "l", "e", "c", "t", " ", "t", "a", "b", "l", "e", "s">>
\* fetch_head's composed statement for table t, before the limit literal
HEAD_PREFIX == <<"s", "e", "l", "e", "c", "t", " ", "*", " ", "f", "r", "o", "m", " ", "t", " ", "l", "i", "m", "i", "t", " ">>

\* statements a user may type
Q_SELECT == <<"s", "e", "l", "e", "c", "t", " ", "1">>
Q_SELECT_MIXED == <<"S", "e", "L", "e", "C", "T", " ", "1">>
Q_TABLE == <<"t", "a", "b", "l", "e", " ", "t">>
Q_DELETE == <<"d", "e", "l", "e", "t", "e", " ", "f", "r", "o", "m", " ", "t">>
Q_BAD == <<"s", "e", "l", "e", "c">>

\* run_query: the text handed to cur.execute
RunQueryBody(q) == RStripChars(Strip(q), {";"})

Wrap(body, n) == WRAP_PREFIX \o body \o WRAP_SUFFIX \o DecStr(n)

\* run_query(query, limit): limit is Optional[int]
RunQueryText(q, lim) ==
    IF lim # None /\ lim[1] > 0 THEN Wrap(RunQueryBody(q), lim[1]) ELSE RunQueryBody(q)

\* fetch_head: the composed statement
FetchHeadText(n) == HEAD_PREFIX \o DecStr(n) \o <<";">>

\* db_test: query = req.query or "SELECT 1 AS ok" (req.query is Optional[str])
DbTestQuery(q) == IF q = None \/ q[1] = <<>> THEN DEFAULT_QUERY ELSE q[1]

\* db_test: query.strip().lower().startswith("select")
IsSelect(q) == StartsWith(Lower(Strip(q)), SELECT_KW)

----------------------------------------------------------------------------
(* The database engine behind cur.execute / conn.fetch / conn.execute.     *)
(* Table t holds R rows of one column.                                     *)

RowsResult(cols, n) == [kind |-> "rows", cols |-> cols, n |-> n, msg |-> "SELECT"]
CommandResult(tag) == [kind |-> "command", cols |-> 0, n |-> 0, msg |-> tag]
EmptyResult == [kind |-> "empty", cols |-> 0, n |-> 0, msg |-> ""]
ErrorResult(m) == [kind |-> "error", cols |-> 0, n |-> 0, msg |-> m]

\* a single statement that is not a limit wrapper; nested: inside a subquery
EngineCore(s, R, nested) ==
    CASE s = Q_SELECT -> RowsResult(1, 1)
      [] s = TEST_QUERY -> RowsResult(1, 1)
      [] s = Q_TABLE -> RowsResult(1, R)
      [] s = LIST_TABLES_QUERY -> RowsResult(2, R)
      [] \E n \in DOMAIN DigitChar : s = HEAD_PREFIX \o DecStr(n) ->
            RowsResult(1, Min(R, CHOOSE n \in DOMAIN DigitChar : s = HEAD_PREFIX \o DecStr(n)))
      [] s = Q_DELETE /\ ~nested -> CommandResult("DELETE")
      [] s = <<>> /\ ~nested -> EmptyResult
      [] OTHER -> ErrorResult("syntax error")

IsWrapper(s, n) ==
    /\ StartsWith(s, WRAP_PREFIX)
    /\ EndsWith(s, WRAP_SUFFIX \o DecStr(n))
    /\ Len(s) >= Len(WRAP_PREFIX) + Len(WRAP_SUFFIX) + Len(DecStr(n))

RECURSIVE EngineEval(_, _, _)
\* select * from (<inner>) as subquery limit n: the first n rows of <inner>,
\* which must be one row-returning statement
EngineEval(s, R, nested) ==
    IF \E n \in DOMAIN DigitChar : IsWrapper(s, n)
    THEN LET n == CHOOSE k \in DOMAIN DigitChar : IsWrapper(s, k)
             inner == SubSeq(s, Len(WRAP_PREFIX) + 1, Len(s) - Len(WRAP_SUFFIX) - Len(DecStr(n)))
             sub == EngineEval(Strip(inner), R, TRUE)
         IN  IF sub.kind = "rows" THEN RowsResult(sub.cols, Min(sub.n, n))
             ELSE ErrorResult("syntax error")
    ELSE EngineCore(s, R, nested)

\* the engine skips surrounding blanks and empty trailing statements, and
\* folds the case of keywords and unquoted identifiers
Engine(text, R) ==
    EngineEval(Lower(RStripChars(LStripChars(text, Whitespace), Whitespace \cup {";"})), R, FALSE)

----------------------------------------------------------------------------
(* run_query after cur.execute: description, fetchall, values *)

\* what a body yields: a value (columns and rows, or a status text) or an exception
Returned(columns, rows) == [exc |-> "none", msg |-> "", shape |-> "rows", columns |-> columns, rows |-> rows]
ReturnedStatus(tag) == [exc |-> "none", msg |-> tag, shape |-> "status", columns |-> 0, rows |-> 0]
Raised(e, m) == [exc |-> e, msg |-> m, shape |-> "none", columns |-> 0, rows |-> 0]

\* cursor.fetchall(): raises ProgrammingError unless the statement produced rows
FetchAll(res) ==
    IF res.kind = "rows" THEN Returned(res.cols, res.n)
    ELSE Raised("ProgrammingError", "the last operation didn't produce a result")

\* column_names = [col.name for col in cur.description] if cur.description else []
ColumnNames(res) == IF res.kind = "rows" THEN res.cols ELSE 0

RunQueryResult(res) ==
    IF res.kind = "error" THEN Raised("EngineError", res.msg)
    ELSE LET fetched == FetchAll(res)
         IN  IF fetched.exc # "none" THEN fetched
             ELSE Returned(ColumnNames(res), fetched.rows)

----------------------------------------------------------------------------
(* run_query applied to drawn statements and limits *)

Leads == {<<>>, <<" ">>, <<"\n", " ">>}
Cores == {Q_SELECT, Q_SELECT_MIXED, Q_TABLE, Q_BAD}
Trails == UNION {[1..k -> {" ", ";"}] : k \in 0..MaxTrail}
TextQueries == {l \o c \o t : l \in Leads, c \in Cores, t \in Trails}

NoTextRun ==
    /\ tpc = "off" /\ tquery = <<>> /\ tlimit = 0
    /\ tsent = <<>> /\ tfirst = Returned(0, 0) /\ tresult = Returned(0, 0)

InitText ==
    /\ tpc = "start"
    /\ tquery \in TextQueries
    /\ tlimit \in 1..MaxLimit
    /\ tableRows \in 0..MaxRows
    /\ tsent = <<>> /\ tfirst = Returned(0, 0) /\ tresult = Returned(0, 0)

\* run_query(q, limit=n)
TextRunQuery ==
    /\ tpc = "start"
    /\ tsent' = RunQueryText(tquery, Some(tlimit))
    /\ tfirst' = RunQueryResult(Engine(tsent', tableRows))
    /\ tpc' = "limited"
    /\ UNCHANGED <<tquery, tlimit, tresult>>

\* run_query(<the statement just sent>, limit=n)
TextRunAgain ==
    /\ tpc = "limited"
    /\ tresult' = RunQueryResult(Engine(RunQueryText(tsent, Some(tlimit)), tableRows))
    /\ tpc' = "relimited"
    /\ UNCHANGED <<tquery, tlimit, tsent, tfirst>>

----------------------------------------------------------------------------
(* Database operations: the four CLI commands over db_connection, and the  *)
(* POST /api/db/test handler. Each process runs one operation.             *)

Procs == 1..NumProcs
CliOps == {"test-connection", "tables", "head", "query"}

\* statements and limits given to `query` and to /api/db/test
OpQueries == {<<" ">> \o Q_SELECT_MIXED \o <<";">>, Q_TABLE, Q_DELETE}
OpLimits == {None, Some(1)}
Urls == {"", "postgres://u:p@localhost:5432/db"}

NoConn == [state |-> "none", owner |-> 0, closeCalls |-> 0, closeFailed |-> FALSE, users |-> {}]
NoOutcome == [code |-> 0 - 1, shape |-> "none", exc |-> "none", msg |-> <<"", "">>, rows |-> 0]
Outcome(code, shape, exc, prefix, m, rows) ==
    [code |-> code, shape |-> shape, exc |-> exc, msg |-> <<prefix, m>>, rows |-> rows]

InitOps ==
    /\ pc = [p \in Procs |-> "idle"]
    /\ op = [p \in Procs |-> "none"]
    /\ query = [p \in Procs |-> None]
    /\ limit = [p \in Procs |-> None]
    /\ conn = [p \in Procs |-> 0]
    /\ sent = [p \in Procs |-> None]
    /\ ret = [p \in Procs |-> Returned(0, 0)]
    /\ outcome = [p \in Procs |-> NoOutcome]
    /\ conns = [c \in Procs |-> NoConn]

NoOps ==
    /\ pc = <<>> /\ op = <<>> /\ query = <<>> /\ limit = <<>> /\ conn = <<>>
    /\ sent = <<>> /\ ret = <<>> /\ outcome = <<>> /\ conns = <<>>

\* the text each db.py function hands to cur.execute
StatementText(kind, q, lim) ==
    CASE kind = "test-connection" -> TEST_QUERY
      [] kind = "tables" -> LIST_TABLES_QUERY
      [] kind = "head" -> FetchHeadText(lim[1])
      [] kind = "query" -> RunQueryText(q[1], lim)

\* test_connection's body: row and row.get("ok") == 1
TestConnectionResult(res) ==
    IF res.kind = "error" THEN Raised("EngineError", res.msg)
    ELSE IF res.kind = "rows" /\ res.n >= 1 THEN ReturnedStatus("Connection successful")
    ELSE Raised("unexpected", "Connection established, but unexpected response")

\* list_tables' and fetch_head's bodies: execute, fetchall
FetchResult(res) ==
    IF res.kind = "error" THEN Raised("EngineError", res.msg) ELSE FetchAll(res)

BodyResult(kind, res) ==
    CASE kind = "test-connection" -> TestConnectionResult(res)
      [] kind = "tables" -> FetchResult(res)
      [] kind = "head" -> FetchResult(res)
      [] kind = "query" -> RunQueryResult(res)

\* a db_connection that closes after the yield without try/finally
ClosesOnlyOnSuccess(bodyResult) == bodyResult.exc = "none"

\* db_connection: finally: connection.close() runs whatever the body did
ClosesOnExit(bodyResult) == TRUE

\* db_connection: an exception raised by close() inside finally replaces the
\* body's exception or return value
AfterClose(bodyResult, closeFailed) ==
    IF closeFailed THEN Raised("CloseError", "close failed") ELSE bodyResult

\* test_connection: except Exception -> (False, "Connection failed: ...")
CmdTestConnection(final) ==
    IF final.exc = "none" THEN Outcome(0, "message", "none", "", final.msg, 0)
    ELSE IF final.exc = "unexpected" THEN Outcome(1, "message", "unexpected", "", final.msg, 0)
    ELSE Outcome(1, "message", final.exc, "Connection failed: ", final.msg, 0)

\* cmd_tables, cmd_head: a table on success; an uncaught exception ends the
\* process with exit code 1 and the error printed
CmdTable(final) ==
    IF final.exc = "none" THEN Outcome(0, "table", "none", "", "", final.rows)
    ELSE Outcome(1, "traceback", final.exc, "", final.msg, 0)

\* cmd_query: if not columns: status line, Exit(0)
CmdQuery(final) ==
    IF final.exc # "none" THEN Outcome(1, "traceback", final.exc, "", final.msg, 0)
    ELSE IF final.columns = 0 THEN Outcome(0, "status_line", "none", "", "Query executed. No rows returned.", 0)
    ELSE Outcome(0, "table", "none", "", "", final.rows)

CliOutcome(kind, final) ==
    CASE kind = "test-connection" -> CmdTestConnection(final)
      [] kind = "tables" -> CmdTable(final)
      [] kind = "head" -> CmdTable(final)
      [] kind = "query" -> CmdQuery(final)

\* connect(**kwargs): a new connection owned by p, or an exception
Connected(p) == [conns EXCEPT ![p] = [NoConn EXCEPT !.state = "open", !.owner = p]]

\* the command lines drawn: head's --limit has min=1, query's is optional
CliInputs ==
    {[kind |-> k, q |-> None, lim |-> None] : k \in {"test-connection", "tables"}}
    \cup {[kind |-> "head", q |-> None, lim |-> Some(1)]}
    \cup {[kind |-> "query", q |-> Some(q), lim |-> l] : q \in OpQueries, l \in OpLimits}

\* one CLI command up to connect(): the statement text is built, then
\* db_connection connects; a failed connect never reaches the try block
CliBegin(p) ==
    /\ pc[p] = "idle"
    /\ \E in \in CliInputs, connected \in BOOLEAN :
          /\ op' = [op EXCEPT ![p] = in.kind]
          /\ query' = [query EXCEPT ![p] = in.q]
          /\ limit' = [limit EXCEPT ![p] = in.lim]
          /\ IF connected
             THEN /\ conns' = Connected(p)
                  /\ conn' = [conn EXCEPT ![p] = p]
                  /\ pc' = [pc EXCEPT ![p] = "body"]
                  /\ UNCHANGED <<ret, outcome>>
             ELSE /\ ret' = [ret EXCEPT ![p] = Raised("OperationalError", "connection refused")]
                  /\ outcome' = [outcome EXCEPT ![p] = CliOutcome(in.kind, ret'[p])]
                  /\ pc' = [pc EXCEPT ![p] = "done"]
                  /\ UNCHANGED <<conns, conn>>
    /\ UNCHANGED <<sent>>

\* what the engine may answer: the statement's result, or a failure of the session
EngineAnswers(text) == {Engine(text, tableRows), ErrorResult("server closed the connection")}

\* the body of `with db_connection() as conn`: cur.execute and the fetch
CliBody(p) ==
    /\ pc[p] = "body" /\ op[p] \in CliOps
    /\ \E res \in EngineAnswers(StatementText(op[p], query[p], limit[p])) :
          /\ sent' = [sent EXCEPT ![p] = Some(StatementText(op[p], query[p], limit[p]))]
          /\ conns' = [conns EXCEPT ![conn[p]].users = @ \cup {p}]
          /\ ret' = [ret EXCEPT ![p] = BodyResult(op[p], res)]
    /\ pc' = [pc EXCEPT ![p] = "close"]
    /\ UNCHANGED <<op, query, limit, conn, outcome>>

\* db_connection's finally, then the command's exit
CliClose(p) ==
    /\ pc[p] = "close" /\ op[p] \in CliOps
    /\ IF ClosesOnExit(ret[p])
       THEN \E closeFailed \in BOOLEAN :
              /\ conns' = [conns EXCEPT ![conn[p]].state = "closed",
                                         ![conn[p]].closeCalls = @ + 1,
                                         ![conn[p]].closeFailed = closeFailed]
              /\ outcome' = [outcome EXCEPT ![p] = CliOutcome(op[p], AfterClose(ret[p], closeFailed))]
       ELSE /\ outcome' = [outcome EXCEPT ![p] = CliOutcome(op[p], ret[p])]
            /\ UNCHANGED conns
    /\ pc' = [pc EXCEPT ![p] = "done"]
    /\ UNCHANGED <<op, query, limit, conn, sent, ret>>

\* db_test: the statement kind is chosen from the text; fetch gives rows, execute a status
DbTestResult(text, res) ==
    IF res.kind = "error" THEN Raised("EngineError", res.msg)
    ELSE IF IsSelect(text) THEN Returned(res.cols, IF res.kind = "rows" THEN res.n ELSE 0)
    ELSE ReturnedStatus(res.msg)

\* a db_test without the except clause: a query failure becomes a server error
DbTestResponseUncaught(bodyResult) ==
    IF bodyResult.exc # "none"
    THEN Outcome(500, "detail", bodyResult.exc, "", "Internal Server Error", 0)
    ELSE IF bodyResult.shape = "rows" THEN Outcome(200, "rows", "none", "", "", bodyResult.rows)
    ELSE Outcome(200, "status", "none", "", bodyResult.msg, 0)

\* db_test: except Exception as query_error -> 400, else the JSON response
DbTestResponse(bodyResult) ==
    IF bodyResult.exc # "none"
    THEN Outcome(400, "detail", bodyResult.exc, "Query error: ", bodyResult.msg, 0)
    ELSE IF bodyResult.shape = "rows" THEN Outcome(200, "rows", "none", "", "", bodyResult.rows)
    ELSE Outcome(200, "status", "none", "", bodyResult.msg, 0)

\* db_test: except Exception as connect_error -> 400
DbTestConnectError(m) == Outcome(400, "detail", "ConnectError", "Connection error: ", m, 0)

\* db_test: finally: try: await conn.close() except Exception: pass
DbTestAfterClose(response, closeFailed) == response

DbTestQueries == {None, Some(<<>>)} \cup {Some(q) : q \in OpQueries}

\* POST /api/db/test up to asyncpg.connect
DbTestBegin(p) ==
    /\ pc[p] = "idle"
    /\ \E url \in Urls, q \in DbTestQueries, connected \in BOOLEAN :
          /\ op' = [op EXCEPT ![p] = "db_test"]
          /\ query' = [query EXCEPT ![p] = q]
          /\ IF url = ""
             THEN /\ outcome' = [outcome EXCEPT ![p] =
                                     Outcome(400, "detail", "MissingUrl", "", "Missing 'url'", 0)]
                  /\ pc' = [pc EXCEPT ![p] = "done"]
                  /\ UNCHANGED <<conns, conn, ret>>
             ELSE IF connected
             THEN /\ conns' = Connected(p)
                  /\ conn' = [conn EXCEPT ![p] = p]
                  /\ pc' = [pc EXCEPT ![p] = "body"]
                  /\ UNCHANGED <<ret, outcome>>
             ELSE /\ ret' = [ret EXCEPT ![p] = Raised("OperationalError", "connection refused")]
                  /\ outcome' = [outcome EXCEPT ![p] = DbTestConnectError(ret'[p].msg)]
                  /\ pc' = [pc EXCEPT ![p] = "done"]
                  /\ UNCHANGED <<conns, conn>>
    /\ UNCHANGED <<limit, sent>>

\* db_test's try block: conn.fetch(query) or conn.execute(query)
DbTestBody(p) ==
    /\ pc[p] = "body" /\ op[p] = "db_test"
    /\ \E res \in EngineAnswers(DbTestQuery(query[p])) :
          /\ sent' = [sent EXCEPT ![p] = Some(DbTestQuery(query[p]))]
          /\ conns' = [conns EXCEPT ![conn[p]].users = @ \cup {p}]
          /\ ret' = [ret EXCEPT ![p] = DbTestResult(DbTestQuery(query[p]), res)]
    /\ pc' = [pc EXCEPT ![p] = "close"]
    /\ UNCHANGED <<op, query, limit, conn, outcome>>

\* db_test's finally, then the response
DbTestFinally(p) ==
    /\ pc[p] = "close" /\ op[p] = "db_test"
    /\ \E closeFailed \in BOOLEAN :
          /\ conns' = [conns EXCEPT ![conn[p]].state = "closed",
                                     ![conn[p]].closeCalls = @ + 1,
                                     ![conn[p]].closeFailed = closeFailed]
          /\ outcome' = [outcome EXCEPT ![p] = DbTestAfterClose(DbTestResponse(ret[p]), closeFailed)]
    /\ pc' = [pc EXCEPT ![p] = "done"]
    /\ UNCHANGED <<op, query, limit, conn, sent, ret>>

----------------------------------------------------------------------------
(* GET /api/db/discover *)

hosts == <<"127.0.0.1", "localhost">>
ports == <<5432, 5433, 5434, 5435>>

\* sock.connect_ex: 0, an error number, or an exception (name resolution, timeout)
ProbeOutcomes == {"connected", "refused", "raised"}

\* an _is_port_open whose except clause returns True
IsPortOpenExceptTrue(probeOutcome) == probeOutcome # "refused"

\* _is_port_open: connect_ex(...) == 0; except Exception: return False
IsPortOpen(probeOutcome) == probeOutcome = "connected"

\* f"postgres://user:pass@{e['host']}:{e['port']}/postgres"
SuggestedUrl(e) == <<"postgres://user:pass@", e.host, ":", e.port, "/postgres">>

NoResponse == [status |-> 0, open |-> <<>>, suggestedUrls |-> <<>>, envUrl |-> None]

InitDiscover ==
    /\ dpc = "probe" /\ dhost = 1 /\ dport = 1
    /\ open_endpoints = <<>> /\ probes = <<>> /\ dresponse = NoResponse

\* one iteration of: for host in hosts: for port in ports: if _is_port_open(...)
DiscoverProbe ==
    /\ dpc = "probe"
    /\ \E o \in ProbeOutcomes :
          /\ probes' = Append(probes, [host |-> hosts[dhost], port |-> ports[dport], outcome |-> o])
          /\ open_endpoints' = IF IsPortOpen(o)
                                THEN Append(open_endpoints, [host |-> hosts[dhost], port |-> ports[dport]])
                                ELSE open_endpoints
    /\ IF dport < Len(ports) THEN dport' = dport + 1 /\ UNCHANGED <<dhost, dpc>>
       ELSE IF dhost < Len(hosts) THEN dhost' = dhost + 1 /\ dport' = 1 /\ UNCHANGED dpc
       ELSE dpc' = "respond" /\ UNCHANGED <<dhost, dport>>
    /\ UNCHANGED dresponse

\* suggestions and the JSON response; env_url is DATABASE_URL or None
DiscoverRespond ==
    /\ dpc = "respond"
    /\ \E env \in {None, Some("postgres://env")} :
          dresponse' = [status |-> 200, open |-> open_endpoints,
                        suggestedUrls |-> [i \in 1..Len(open_endpoints) |-> SuggestedUrl(open_endpoints[i])],
                        envUrl |-> env]
    /\ dpc' = "done"
    /\ UNCHANGED <<dhost, dport, open_endpoints, probes>>

----------------------------------------------------------------------------
(* POST /api/chat: a sync handler, so concurrent requests run on threads   *)

Threads == 1..NumThreads
Messages == {<<>>, <<" ">>, <<"h", "i">>, <<" ", "h", "i", "\n">>}

\* graph.invoke: an output, no output (empty, None, or not a dict), or an exception
InvokeOutcomes == {"output", "empty", "raised"}

ChatResponse(status, reply, echo) == [status |-> status, reply |-> reply, echo |-> echo]
NoChatResponse == ChatResponse(0, "", <<>>)

\* a chat without the except clause: the collaborator's failure reaches the caller
ChatReplyUncaught(invokeOutcome, text) ==
    CASE invokeOutcome = "output" -> ChatResponse(200, "model output", text)
      [] invokeOutcome = "empty" -> ChatResponse(200, "(empty)", text)
      [] invokeOutcome = "raised" -> ChatResponse(500, "Internal Server Error", <<>>)

\* chat: the reply after graph.invoke; except Exception -> the stub with the error
ChatReply(invokeOutcome, text) ==
    CASE invokeOutcome = "output" -> ChatResponse(200, "model output", text)
      [] invokeOutcome = "empty" -> ChatResponse(200, "(empty)", text)
      [] invokeOutcome = "raised" -> ChatResponse(200, "stub: LLM error", text)

\* chat: graph is None -> the stub
ChatStub(text) == ChatResponse(200, "stub: message received", text)

InitChat ==
    /\ cpc = [t \in Threads |-> "idle"]
    /\ cmsg = [t \in Threads |-> <<>>]
    /\ ctext = [t \in Threads |-> <<>>]
    /\ cgraph = [t \in Threads |-> 0]
    /\ cinvoked = [t \in Threads |-> FALSE]
    /\ cresponse = [t \in Threads |-> NoChatResponse]
    /\ _compiled_graph = 0
    /\ compileCount = 0
    /\ libsAvailable \in BOOLEAN

\* chat: text = (msg.message or "").strip(); if not text: 400
ChatBegin(t) ==
    /\ cpc[t] = "idle"
    /\ \E m \in Messages :
          /\ cmsg' = [cmsg EXCEPT ![t] = m]
          /\ ctext' = [ctext EXCEPT ![t] = Strip(m)]
          /\ IF Strip(m) = <<>>
             THEN /\ cresponse' = [cresponse EXCEPT ![t] = ChatResponse(400, "Empty message", <<>>)]
                  /\ cpc' = [cpc EXCEPT ![t] = "done"]
             ELSE /\ cpc' = [cpc EXCEPT ![t] = "get_graph"]
                  /\ UNCHANGED cresponse
    /\ UNCHANGED <<cgraph, cinvoked, _compiled_graph, compileCount, libsAvailable>>

\* _get_graph: the two early returns (0 stands for None)
GetGraphCheck(t) ==
    /\ cpc[t] = "get_graph"
    /\ IF _compiled_graph # 0
       THEN /\ cgraph' = [cgraph EXCEPT ![t] = _compiled_graph]
            /\ cpc' = [cpc EXCEPT ![t] = "invoke"]
            /\ UNCHANGED cresponse
       ELSE IF ~libsAvailable
       THEN /\ cresponse' = [cresponse EXCEPT ![t] = ChatStub(ctext[t])]
            /\ cpc' = [cpc EXCEPT ![t] = "done"]
            /\ UNCHANGED cgraph
       ELSE /\ cpc' = [cpc EXCEPT ![t] = "compile"]
            /\ UNCHANGED <<cgraph, cresponse>>
    /\ UNCHANGED <<cmsg, ctext, cinvoked, _compiled_graph, compileCount, libsAvailable>>

\* _get_graph: _compiled_graph = graph.compile(); each compile makes a new graph
GetGraphCompile(t) ==
    /\ cpc[t] = "compile"
    /\ compileCount' = compileCount + 1
    /\ _compiled_graph' = compileCount'
    /\ cgraph' = [cgraph EXCEPT ![t] = compileCount']
    /\ cpc' = [cpc EXCEPT ![t] = "invoke"]
    /\ UNCHANGED <<cmsg, ctext, cinvoked, cresponse, libsAvailable>>

\* chat: try: graph.invoke(...) ... except Exception
ChatInvoke(t) ==
    /\ cpc[t] = "invoke"
    /\ \E o \in InvokeOutcomes :
          cresponse' = [cresponse EXCEPT ![t] = ChatReply(o, ctext[t])]
    /\ cinvoked' = [cinvoked EXCEPT ![t] = TRUE]
    /\ cpc' = [cpc EXCEPT ![t] = "done"]
    /\ UNCHANGED <<cmsg, ctext, cgraph, _compiled_graph, compileCount, libsAvailable>>

----------------------------------------------------------------------------
(* Specifications *)

NoDiscover ==
    /\ dpc = "off" /\ dhost = 0 /\ dport = 0
    /\ open_endpoints = <<>> /\ probes = <<>> /\ dresponse = NoResponse

NoChat ==
    /\ cpc = <<>> /\ cmsg = <<>> /\ ctext = <<>> /\ cgraph = <<>> /\ cinvoked = <<>>
    /\ cresponse = <<>> /\ _compiled_graph = 0 /\ compileCount = 0 /\ libsAvailable = FALSE

InitOpsSpec == InitOps /\ tableRows = MaxRows /\ NoTextRun /\ NoDiscover /\ NoChat

NextOps ==
    \E p \in Procs :
        \/ CliBegin(p) /\ UNCHANGED <<tableRows, textVars, discoverVars, chatVars>>
        \/ CliBody(p) /\ UNCHANGED <<tableRows, textVars, discoverVars, chatVars>>
        \/ CliClose(p) /\ UNCHANGED <<tableRows, textVars, discoverVars, chatVars>>
        \/ DbTestBegin(p) /\ UNCHANGED <<tableRows, textVars, discoverVars, chatVars>>
        \/ DbTestBody(p) /\ UNCHANGED <<tableRows, textVars, discoverVars, chatVars>>
        \/ DbTestFinally(p) /\ UNCHANGED <<tableRows, textVars, discoverVars, chatVars>>

SpecOps == InitOpsSpec /\ [][NextOps]_vars

InitTextSpec == InitText /\ NoOps /\ NoDiscover /\ NoChat

NextText ==
    \/ TextRunQuery /\ UNCHANGED <<opVars, tableRows, discoverVars, chatVars>>
    \/ TextRunAgain /\ UNCHANGED <<opVars, tableRows, discoverVars, chatVars>>

SpecText == InitTextSpec /\ [][NextText]_vars

InitDiscoverSpec == InitDiscover /\ tableRows = 0 /\ NoOps /\ NoTextRun /\ NoChat

NextDiscover ==
    \/ DiscoverProbe /\ UNCHANGED <<opVars, tableRows, textVars, chatVars>>
    \/ DiscoverRespond /\ UNCHANGED <<opVars, tableRows, textVars, chatVars>>

SpecDiscover == InitDiscoverSpec /\ [][NextDiscover]_vars

InitChatSpec == InitChat /\ tableRows = 0 /\ NoOps /\ NoTextRun /\ NoDiscover

NextChat ==
    \E t \in Threads :
        \/ ChatBegin(t) /\ UNCHANGED <<opVars, tableRows, textVars, discoverVars>>
        \/ GetGraphCheck(t) /\ UNCHANGED <<opVars, tableRows, textVars, discoverVars>>
        \/ GetGraphCompile(t) /\ UNCHANGED <<opVars, tableRows, textVars, discoverVars>>
        \/ ChatInvoke(t) /\ UNCHANGED <<opVars, tableRows, textVars, discoverVars>>

SpecChat == InitChatSpec /\ [][NextChat]_vars

----------------------------------------------------------------------------
(* Properties *)

Done(p) == pc[p] = "done"
\* p connected, so its operation opened a connection
Opened(p) == conn[p] # 0
\* the engine executed p's statement without an error
EngineOk(p) == sent[p] # None /\ ret[p].exc # "EngineError"
BodyFailed(p) == sent[p] # None /\ ret[p].exc # "none"

\* C1: every operation that opened a connection closes it exactly once before
\* it ends, whether its body completed or failed; a connection is used only by
\* the operation that opened it; once all operations have ended none is open.
C1_ClosedExactlyOnce ==
    /\ \A c \in Procs :
          /\ conns[c].closeCalls <= 1
          /\ conns[c].users \subseteq {conns[c].owner}
          /\ conns[c].state = "open" => pc[conns[c].owner] \in {"body", "close"}
    /\ \A p \in Procs :
          Done(p) /\ Opened(p) =>
              /\ conns[conn[p]].owner = p
              /\ conns[conn[p]].closeCalls = 1
              /\ conns[conn[p]].state = "closed"
    /\ (\A p \in Procs : Done(p)) => \A c \in Procs : conns[c].state # "open"

\* a CLI operation whose body failed and a /api/db/test whose body completed
\* have both ended, each having closed its connection
C1_Witness ==
    \E p, q \in Procs :
        /\ Done(p) /\ op[p] \in CliOps /\ BodyFailed(p) /\ conns[conn[p]].closeCalls = 1
        /\ Done(q) /\ op[q] = "db_test" /\ Opened(q) /\ ret[q].exc = "none"
        /\ conns[conn[q]].closeCalls = 1

\* the statement an operation was given
InputStatement(p) == IF op[p] = "db_test" THEN DbTestQuery(query[p]) ELSE query[p][1]

\* C2: every successful execution yields exactly one of Result Set and Command
\* Outcome: rows for a statement that begins with SELECT (leading whitespace
\* and case ignored); for a statement that does not and that the engine
\* completes as a command, a status (/api/db/test) or an empty column list
\* (run_query).
C2_ExactlyOneOutcome ==
    \A p \in Procs :
        Done(p) /\ op[p] \in {"query", "db_test"} /\ EngineOk(p) /\ ~conns[conn[p]].closeFailed =>
            LET select == IsSelect(InputStatement(p))
                command == Engine(sent[p][1], tableRows).kind = "command"
            IN  IF op[p] = "db_test"
                THEN /\ outcome[p].code = 200
                     /\ select => outcome[p].shape = "rows"
                     /\ ~select /\ command => outcome[p].shape = "status"
                ELSE /\ outcome[p].code = 0
                     /\ select => ret[p].exc = "none" /\ ret[p].columns > 0
                     /\ ~select /\ command => ret[p].exc = "none" /\ ret[p].columns = 0

\* C3: run_query(q, limit=n) on a query that returns R rows returns min(R, n)
\* rows, and limiting the limited statement again returns as many.
C3_LimitIsMinAndIdempotent ==
    LET unlimited == RunQueryResult(Engine(RunQueryText(tquery, None), tableRows))
    IN  tpc \in {"limited", "relimited"} /\ unlimited.exc = "none" =>
            /\ tfirst.exc = "none"
            /\ tfirst.rows = Min(unlimited.rows, tlimit)
            /\ tpc = "relimited" => tresult.exc = "none" /\ tresult.rows = tfirst.rows

\* C4: when the body fails and the close fails too, the caller is told the
\* body's failure, not the close failure.
C4_BodyFailureNotMasked ==
    \A p \in Procs :
        Done(p) /\ BodyFailed(p) /\ conns[conn[p]].closeFailed =>
            /\ outcome[p].exc = ret[p].exc
            /\ outcome[p].msg[2] = ret[p].msg

EngineMessages == {"syntax error", "server closed the connection"}

\* C5: /api/db/test answers 400 with the underlying message when the connect
\* or the query fails and 200 only when both succeed; a failed connect runs no
\* query and attempts no close; a missing or empty query runs SELECT 1 AS ok.
C5_DbTestStatus ==
    \A p \in Procs :
        Done(p) /\ op[p] = "db_test" =>
            /\ outcome[p].code \in {200, 400}
            /\ outcome[p].code = 200 <=> (Opened(p) /\ EngineOk(p))
            /\ ~Opened(p) =>
                  /\ sent[p] = None
                  /\ conns[p].closeCalls = 0
                  /\ outcome[p].msg \in {<<"Connection error: ", "connection refused">>,
                                          <<"", "Missing 'url'">>}
            /\ Opened(p) /\ ~EngineOk(p) =>
                  /\ outcome[p].msg[1] = "Query error: "
                  /\ outcome[p].msg[2] \in EngineMessages
            /\ Opened(p) /\ (query[p] = None \/ query[p] = Some(<<>>)) =>
                  sent[p] = Some(<<"S", "E", "L", "E", "C", "T", " ", "1", " ", "A", "S", " ", "o", "k">>)
            /\ Opened(p) /\ query[p] # None /\ query[p] # Some(<<>>) => sent[p] = query[p]

\* an empty query ran the default statement and failed with 400, while another
\* request could not connect
C5_Witness ==
    \E p, q \in Procs :
        /\ Done(p) /\ op[p] = "db_test" /\ query[p] = Some(<<>>)
        /\ sent[p] = Some(DEFAULT_QUERY) /\ outcome[p].code = 400
        /\ Done(q) /\ op[q] = "db_test" /\ ~Opened(q) /\ outcome[q].msg[1] = "Connection error: "

\* C6: every CLI command exits 0 when its database operation succeeds and 1
\* with the message when the connection or the query fails; `query` with a
\* statement that executes but returns no rows exits 0 with a status line.
C6_ExitCodes ==
    \A p \in Procs :
        Done(p) /\ op[p] \in CliOps =>
            /\ ~Opened(p) \/ ~EngineOk(p) =>
                  /\ outcome[p].code = 1
                  /\ outcome[p].shape \in {"message", "traceback"}
                  /\ outcome[p].msg[2] # ""
            /\ Opened(p) /\ EngineOk(p) /\ ~conns[conn[p]].closeFailed =>
                  /\ outcome[p].code = 0
                  /\ op[p] = "query" /\ Engine(sent[p][1], tableRows).kind = "command" =>
                        outcome[p].shape = "status_line"

\* the host-major, port-minor enumeration of the matrix
Matrix ==
    [k \in 1..(Len(hosts) * Len(ports)) |->
        [host |-> hosts[((k - 1) \div Len(ports)) + 1], port |-> ports[((k - 1) % Len(ports)) + 1]]]

RECURSIVE OpenAmong(_)
\* the probed pairs whose connect succeeded, in probing order
OpenAmong(log) ==
    IF log = <<>> THEN <<>>
    ELSE LET rest == OpenAmong(SubSeq(log, 1, Len(log) - 1))
             last == log[Len(log)]
         IN  IF last.outcome = "connected"
             THEN Append(rest, [host |-> last.host, port |-> last.port])
             ELSE rest

IsTrimOf(s, m) ==
    \E i \in 1..(Len(m) + 1), j \in 0..Len(m) :
        /\ s = SubSeq(m, i, j)
        /\ \A k \in 1..Len(m) : (k < i \/ k > j) => m[k] \in Whitespace
        /\ s # <<>> => s[1] \notin Whitespace /\ s[Len(s)] \notin Whitespace

\* C8: /api/chat never passes a failure of the LLM collaborator on: a message
\* that is non-empty after trimming gets 200 with the trimmed message as echo
\* and the model output or a stub as reply; an empty one gets 400 and the
\* collaborator is not invoked.
C8_ChatNeverFails ==
    \A t \in Threads :
        cpc[t] = "done" =>
            /\ IsTrimOf(ctext[t], cmsg[t])
            /\ IF \A k \in 1..Len(cmsg[t]) : cmsg[t][k] \in Whitespace
               THEN cresponse[t].status = 400 /\ ~cinvoked[t]
               ELSE /\ cresponse[t].status = 200
                    /\ cresponse[t].echo = ctext[t]
                    /\ cresponse[t].echo # <<>>
                    /\ cresponse[t].reply \in {"model output", "(empty)", "stub: LLM error",
                                                "stub: message received"}
                    /\ cresponse[t].reply = "model output" => cinvoked[t]

\* a request whose graph invocation raised has been answered with the stub,
\* and a blank message has been refused
C8_Witness ==
    \E t, u \in Threads :
        /\ cpc[t] = "done" /\ cinvoked[t] /\ cresponse[t].reply = "stub: LLM error"
        /\ cmsg[t] # ctext[t]
        /\ cpc[u] = "done" /\ cresponse[u].status = 400 /\ cmsg[u] # <<>>

\* C9: under any interleaving of /api/chat requests the chat graph is compiled
\* at most once, and every _get_graph call returns the one cached graph.
C9_CompiledAtMostOnce ==
    /\ compileCount <= 1
    /\ \A t \in Threads : cgraph[t] # 0 => cgraph[t] = _compiled_graph

\* the statement without surrounding whitespace and trailing terminators
TrimmedStatement(q) ==
    RStripChars(LStripChars(q, Whitespace), Whitespace \cup {";"})

\* the text between the wrapper's parentheses
WrappedBody(text, n) ==
    SubSeq(text, Len(WRAP_PREFIX) + 1, Len(text) - Len(WRAP_SUFFIX) - Len(DecStr(n)))

\* C10: with a limit n >= 1 run_query sends select * from (<body>) as subquery
\* limit n, where <body> is the statement with no trailing terminator left
\* (also when blanks separate several of them) and nothing else rewritten.
C10_NoTrailingTerminator ==
    tpc \in {"limited", "relimited"} =>
        LET body == WrappedBody(tsent, tlimit)
        IN  /\ tsent = Wrap(body, tlimit)
            /\ Strip(body) = TrimmedStatement(tquery)
            /\ Strip(body) = <<>> \/ Strip(body)[Len(Strip(body))] # ";"

====
